---------------------------- MODULE Spec2Model ----------------------------
(***************************************************************************)
(* State-machine model of adstxt.go: the crawl loop Get and the batch      *)
(* orchestrator GetMultiple of go-adstxt-crawler.                          *)
(*                                                                         *)
(* One run of the model is one call of GetMultiple(req, h).  The main      *)
(* goroutine walks the batch, sends a token into the buffered channel      *)
(* `guard` and starts one goroutine per Request; each goroutine runs       *)
(* Get(r), then h.Handle(r, res, err), then receives from `guard`, then    *)
(* runs its deferred wg.Done().  Get is modelled step by step: one fetch   *)
(* (c.sendRequest), the switch on res.StatusCode, and every return.        *)
(*                                                                         *)
(* The transport, the server, the redirect extraction, the body reader,    *)
(* the expiry parser and the Handler are the environment: their outcomes   *)
(* are chosen with \E.                                                     *)
(*                                                                         *)
(* ParseBody is modelled as an operator over byte buffers: the split       *)
(* function, the loop of bufio.Scanner.Scan with its growing buffer, and   *)
(* the collection of the lines.  SpecParse applies it to every buffer of   *)
(* up to MaxLen bytes; SpecAlias runs GetMultiple on a batch that holds    *)
(* one *Request twice.                                                     *)
(***************************************************************************)
EXTENDS Integers, Sequences, FiniteSets, TLC

(***************************************************************************)
(* Bounds of the model.                                                    *)
(***************************************************************************)
\* largest batch handed to GetMultiple
NumReq == 3
\* capacity of the guard channel; stands for runtime.NumCPU()*5
GuardCap == 2
\* the per-crawl counters of fetches and redirects saturate here:
\* a counter equal to MaxCount reads "MaxCount or more"
MaxCount == 2
\* number of distinct redirect targets the server of a single crawl names
NumTargets == 1
\* longest byte buffer handed to ParseBody
MaxLen == 4
\* size of the first buffer of a bufio.Scanner; stands for startBufSize, 4096
StartBufSize == 2
\* largest buffer of a bufio.Scanner; stands for bufio.MaxScanTokenSize, 65536
MaxTokenSize == 4

(***************************************************************************)
(* Values.                                                                 *)
(***************************************************************************)
\* the Request objects that exist; Request k has Domain k
Objs == 1..NumReq
\* goroutine t is the one started for position t of the batch
Tasks == 1..NumReq
\* URL 0 is a Request's original endpoint, 1.. are redirect targets
OrigURL == 0
\* a nil pointer / nil error is the empty set, a non-nil one a singleton
Nil == {}

\* the bytes of a body: the two line terminators, the comment mark, a
\* blank, the separator of a variable record and one other character
CR == "CR"
LF == "LF"
Bytes == {CR, LF, "#", " ", "=", "a"}
\* the byte buffers ParseBody is called with
Inputs == UNION {[1..n -> Bytes] : n \in 0..MaxLen}

\* representative status codes: the edges of every range of the switch
AllCodes == {100, 200, 201, 300, 301, 399, 400, 404, 499, 500}
\* the codes the server uses in a batch run: one per class of the switch
BatchCodes == {200, 301, 404}

VARIABLES
    batch,      \* req []*Request: sequence of Request objects
    server,     \* environment: [codes, targets] the server answers with
    req,        \* the Request objects: [Objs -> [Domain, URL]]
    mainpc,     \* position of GetMultiple's own goroutine
    i,          \* index of the range loop over req
    guard,      \* number of tokens in the guard channel
    wg,         \* counter of the sync.WaitGroup
    crashed,    \* an unrecovered panic has ended the process
    pc,         \* position of each worker goroutine
    r,          \* the parameter r of each goroutine's closure
    senderr,    \* err of res, err := c.sendRequest(req) is non-nil
    status,     \* res.StatusCode of the response Get is classifying
    ret,        \* (res, err) returned by Get, locals of the goroutine
    hargs,      \* arguments of the Handle invocation that is running
    hcount,     \* Handle invocations so far, per Request object
    nfetch,     \* fetches issued by the current crawl (saturating)
    nredir,     \* redirects followed by the current crawl (saturating)
    fetchurl,   \* URL the crawl's latest fetch was issued against
    body,       \* response bodies of the crawl: [open, defers]
    input,      \* b []byte: the buffer ParseBody is called with
    ppc,        \* position of the caller of ParseBody
    out,        \* what the latest call of ParseBody collected and returned
    prev,       \* what the call before the latest returned
    ev          \* the latest event the environment gave the crawl

vars == <<batch, server, req, mainpc, i, guard, wg, crashed, pc, r, senderr,
          status, ret, hargs, hcount, nfetch, nredir, fetchurl, body, ev,
          input, ppc, out, prev>>

mainvars == <<mainpc, i, guard, wg>>
parsevars == <<input, ppc, out, prev>>
crawlvars == <<senderr, status, nfetch, nredir, fetchurl, body>>

Min(a, b) == IF a < b THEN a ELSE b
\* one more fetch or redirect is counted, up to the saturation point
Bump(c) == IF c < MaxCount THEN c + 1 ELSE MaxCount

\* positions of a goroutine inside Get
GetStates == {"send", "await", "reply"}

NoRet == [resp |-> Nil, err |-> Nil]
Event(kind, code) == [kind |-> kind, code |-> code]
NoEvent == Event("none", 0)
\* no response body is open and no Close is deferred
NoBody == [open |-> 0, defers |-> 0]
\* ParseBody has not returned: lines is the local of l.131, records and err
\* the two results
NoOut == [lines |-> <<>>, records |-> Nil, err |-> Nil]

\* fmt.Errorf(format, res.Status, req.Domain, req.URL), u the value read
\* from req.URL
Error(kind, st, o, u) ==
    [kind |-> kind, status |-> st, domain |-> req[o].Domain, url |-> u]
\* the error a helper of the crawler returns, handed on unchanged
HelperError(kind) == [kind |-> kind, status |-> 0, domain |-> 0, url |-> 0]

(***************************************************************************)
(* Initial states.                                                         *)
(***************************************************************************)
\* no goroutine has run: the Requests are as the caller built them
Idle ==
    /\ req = [o \in Objs |-> [Domain |-> o, URL |-> OrigURL]]
    /\ mainpc = "start"
    /\ i = 1
    /\ guard = 0
    /\ wg = 0
    /\ crashed = FALSE
    /\ pc = [t \in Tasks |-> "idle"]
    /\ r = [t \in Tasks |-> 0]
    /\ senderr = [t \in Tasks |-> FALSE]
    /\ status = [t \in Tasks |-> 0]
    /\ ret = [t \in Tasks |-> NoRet]
    /\ hargs = [t \in Tasks |-> Nil]
    /\ hcount = [o \in Objs |-> 0]
    /\ nfetch = [t \in Tasks |-> 0]
    /\ nredir = [t \in Tasks |-> 0]
    /\ fetchurl = [t \in Tasks |-> OrigURL]
    /\ body = [t \in Tasks |-> NoBody]
    /\ ev = [t \in Tasks |-> NoEvent]

\* ParseBody is not being called
ParseIdle ==
    /\ input = <<>>
    /\ ppc = "off"
    /\ out = NoOut
    /\ prev = NoOut

\* GetMultiple has been called with a batch; nothing has run yet.  A batch
\* is either up to NumReq distinct Requests against a server that answers
\* with one status of each class and redirects to the URL it was asked for,
\* or one Request against a server that uses every representative status
\* and several redirect targets.
Init ==
    /\ ParseIdle
    /\ \/ \E n \in 0..NumReq :
            /\ batch = [k \in 1..n |-> k]
            /\ server = [codes |-> BatchCodes, targets |-> {OrigURL}]
       \/ /\ batch = <<1>>
          /\ server = [codes |-> AllCodes, targets |-> 0..NumTargets]
    /\ Idle

\* GetMultiple is called with a batch that holds the same *Request at two
\* positions
InitAlias ==
    /\ batch = <<1, 1>>
    /\ server = [codes |-> BatchCodes \cup {500}, targets |-> 0..NumTargets]
    /\ Idle
    /\ ParseIdle

(***************************************************************************)
(* GetMultiple, the calling goroutine.                                     *)
(***************************************************************************)
\* wg.Add(len(req)); guard := make(chan struct{}, runtime.NumCPU()*5)
MainStart ==
    /\ ~crashed
    /\ mainpc = "start"
    /\ wg' = Len(batch)
    /\ guard' = 0
    /\ mainpc' = "loop"
    /\ UNCHANGED <<batch, server, parsevars,
                   req, i, crashed, pc, r, ret, hargs, hcount,
                   crawlvars, ev>>

\* a send that does not block when the channel is full
MainAcquireNoBlock ==
    /\ ~crashed
    /\ mainpc = "loop"
    /\ i <= Len(batch)
    /\ guard' = Min(guard + 1, GuardCap)
    /\ mainpc' = "go"
    /\ UNCHANGED <<batch, server, parsevars,
                   req, i, wg, crashed, pc, r, ret, hargs,
                   hcount, crawlvars, ev>>

\* guard <- struct{}{} : blocks while the channel is full
MainAcquire ==
    /\ ~crashed
    /\ mainpc = "loop"
    /\ i <= Len(batch)
    /\ guard < GuardCap
    /\ guard' = guard + 1
    /\ mainpc' = "go"
    /\ UNCHANGED <<batch, server, parsevars,
                   req, i, wg, crashed, pc, r, ret, hargs,
                   hcount, crawlvars, ev>>

\* go func(r *Request) {...}(r) : the goroutine starts in Get, at the top of
\* the for loop (c := newCrawler() holds no state the model needs)
MainSpawn ==
    /\ ~crashed
    /\ mainpc = "go"
    /\ pc' = [pc EXCEPT ![i] = "send"]
    /\ r' = [r EXCEPT ![i] = batch[i]]
    /\ i' = i + 1
    /\ mainpc' = "loop"
    /\ UNCHANGED <<batch, server, parsevars,
                   req, guard, wg, crashed, ret, hargs, hcount,
                   crawlvars, ev>>

\* the range loop is exhausted
MainLoopEnd ==
    /\ ~crashed
    /\ mainpc = "loop"
    /\ i > Len(batch)
    /\ mainpc' = "wait"
    /\ UNCHANGED <<batch, server, parsevars,
                   req, i, guard, wg, crashed, pc, r, ret,
                   hargs, hcount, crawlvars, ev>>

\* GetMultiple returns without waiting for the counter
MainWaitNoWait ==
    /\ ~crashed
    /\ mainpc = "wait"
    /\ mainpc' = "returned"
    /\ UNCHANGED <<batch, server, parsevars,
                   req, i, guard, wg, crashed, pc, r, ret,
                   hargs, hcount, crawlvars, ev>>

\* wg.Wait() returns once the counter is zero; GetMultiple returns
MainWait ==
    /\ ~crashed
    /\ mainpc = "wait"
    /\ wg = 0
    /\ mainpc' = "returned"
    /\ UNCHANGED <<batch, server, parsevars,
                   req, i, guard, wg, crashed, pc, r, ret,
                   hargs, hcount, crawlvars, ev>>

(***************************************************************************)
(* Get, run by goroutine t on its Request.                                 *)
(***************************************************************************)
\* the closure reads the loop variable of GetMultiple, not a parameter
TaskReqLoopVar(t) == batch[Min(i, Len(batch))]

\* the Request the goroutine works on: its closure parameter r
TaskReq(t) == r[t]

\* only the latest response's body is closed as Get returns
GetReturnCloseLast(t, resp, err) ==
    /\ ret' = [ret EXCEPT ![t] = [resp |-> resp, err |-> err]]
    /\ pc' = [pc EXCEPT ![t] = "handle"]
    /\ senderr' = [senderr EXCEPT ![t] = FALSE]
    /\ status' = [status EXCEPT ![t] = 0]
    /\ nfetch' = [nfetch EXCEPT ![t] = 0]
    /\ nredir' = [nredir EXCEPT ![t] = 0]
    /\ fetchurl' = fetchurl
    /\ body' = [body EXCEPT ![t] =
            [open |-> IF @.open > 0 THEN @.open - 1 ELSE 0, defers |-> 0]]

\* a return statement of Get: every deferred res.Body.Close() runs, then the
\* goroutine has res, err := Get(r); the frame of Get and its locals are gone
GetReturn(t, resp, err) ==
    /\ ret' = [ret EXCEPT ![t] = [resp |-> resp, err |-> err]]
    /\ pc' = [pc EXCEPT ![t] = "handle"]
    /\ senderr' = [senderr EXCEPT ![t] = FALSE]
    /\ status' = [status EXCEPT ![t] = 0]
    /\ nfetch' = [nfetch EXCEPT ![t] = 0]
    /\ nredir' = [nredir EXCEPT ![t] = 0]
    /\ fetchurl' = fetchurl
    /\ body' = [body EXCEPT ![t] =
            [open |-> @.open - @.defers, defers |-> 0]]

\* another goroutine is inside Get on the same Request object: its write of
\* req.URL is not ordered with this goroutine's accesses
Racing(t) ==
    \E u \in Tasks : u # t /\ pc[u] \in GetStates /\ TaskReq(u) = TaskReq(t)

\* the values a read of req.URL can yield: the stored one, or under a data
\* race any URL, NumTargets + 1 standing for a torn string
URLRead(t) ==
    IF Racing(t) THEN 0..(NumTargets + 1) ELSE {req[TaskReq(t)].URL}

\* c.sendRequest(req) is called: one fetch is issued against req.URL
SendRequest(t) ==
    /\ ~crashed
    /\ pc[t] = "send"
    /\ nfetch' = [nfetch EXCEPT ![t] = Bump(nfetch[t])]
    /\ \E u \in URLRead(t) : fetchurl' = [fetchurl EXCEPT ![t] = u]
    /\ pc' = [pc EXCEPT ![t] = "await"]
    /\ UNCHANGED <<batch, server, parsevars,
                   req, mainvars, crashed, r, senderr, status,
                   ret, hargs, hcount, nredir, body, ev>>

\* the transport fails: c.sendRequest returns a nil response and an error
FetchFails(t) ==
    /\ ~crashed
    /\ pc[t] = "await"
    /\ senderr' = [senderr EXCEPT ![t] = TRUE]
    /\ status' = [status EXCEPT ![t] = 0]
    /\ ev' = [ev EXCEPT ![t] = Event("transport", 0)]
    /\ pc' = [pc EXCEPT ![t] = "reply"]
    /\ UNCHANGED <<batch, server, parsevars,
                   req, mainvars, crashed, r, ret, hargs,
                   hcount, nfetch, nredir, fetchurl, body>>

\* the server answers: c.sendRequest returns a response and a nil error, and
\* defer res.Body.Close() is registered for the body of that response
FetchResponds(t) ==
    /\ ~crashed
    /\ pc[t] = "await"
    /\ \E code \in server.codes :
          /\ status' = [status EXCEPT ![t] = code]
          /\ ev' = [ev EXCEPT ![t] = Event("status", code)]
    /\ senderr' = [senderr EXCEPT ![t] = FALSE]
    /\ body' = [body EXCEPT ![t] =
            [open |-> Bump(@.open), defers |-> Bump(@.defers)]]
    /\ pc' = [pc EXCEPT ![t] = "reply"]
    /\ UNCHANGED <<batch, server, parsevars,
                   req, mainvars, crashed, r, ret, hargs,
                   hcount, nfetch, nredir, fetchurl>>

\* the failed fetch is issued again
TransportErrorRetry(t) ==
    /\ ~crashed
    /\ pc[t] = "reply"
    /\ senderr[t]
    /\ pc' = [pc EXCEPT ![t] = "send"]
    /\ UNCHANGED <<batch, server, parsevars,
                   req, mainvars, crashed, r, ret, hargs,
                   hcount, crawlvars, ev>>

\* if err != nil { return nil, err }
TransportError(t) ==
    /\ ~crashed
    /\ pc[t] = "reply"
    /\ senderr[t]
    /\ GetReturn(t, Nil, {HelperError("transport")})
    /\ UNCHANGED <<batch, server, parsevars,
                   req, mainvars, crashed, r, hargs, hcount, ev>>

\* a failed c.handleRedirect still overwrites req.URL
RedirectFailsClobber(t) ==
    /\ ~crashed
    /\ pc[t] = "reply"
    /\ ~senderr[t]
    /\ 300 <= status[t] /\ status[t] < 400
    /\ ev' = [ev EXCEPT ![t] = Event("badlocation", status[t])]
    /\ req' = [req EXCEPT ![TaskReq(t)].URL = NumTargets]
    /\ GetReturn(t, Nil, {HelperError("redirect")})
    /\ UNCHANGED <<batch, server, parsevars,
                   mainvars, crashed, r, hargs, hcount>>

\* case 300 <= res.StatusCode && res.StatusCode < 400:
\* c.handleRedirect fails; return nil, err
RedirectFails(t) ==
    /\ ~crashed
    /\ pc[t] = "reply"
    /\ ~senderr[t]
    /\ 300 <= status[t] /\ status[t] < 400
    /\ ev' = [ev EXCEPT ![t] = Event("badlocation", status[t])]
    /\ GetReturn(t, Nil, {HelperError("redirect")})
    /\ UNCHANGED <<batch, server, parsevars,
                   req, mainvars, crashed, r, hargs, hcount>>

\* the redirect is followed but req.URL is left as it was
RedirectKeepURL(t) ==
    /\ ~crashed
    /\ pc[t] = "reply"
    /\ ~senderr[t]
    /\ 300 <= status[t] /\ status[t] < 400
    /\ \E target \in server.targets :
          ev' = [ev EXCEPT ![t] = Event("location", target)]
    /\ nredir' = [nredir EXCEPT ![t] = Bump(nredir[t])]
    /\ pc' = [pc EXCEPT ![t] = "send"]
    /\ UNCHANGED <<batch, server, parsevars,
                   req, mainvars, crashed, r, senderr, status,
                   ret, hargs, hcount, nfetch, fetchurl, body>>

\* case 300 <= res.StatusCode && res.StatusCode < 400:
\* c.handleRedirect yields the target; req.URL = redirect; the loop iterates
Redirect(t) ==
    /\ ~crashed
    /\ pc[t] = "reply"
    /\ ~senderr[t]
    /\ 300 <= status[t] /\ status[t] < 400
    /\ \E target \in server.targets :
          /\ req' = [req EXCEPT ![TaskReq(t)].URL = target]
          /\ ev' = [ev EXCEPT ![t] = Event("location", target)]
    /\ nredir' = [nredir EXCEPT ![t] = Bump(nredir[t])]
    /\ pc' = [pc EXCEPT ![t] = "send"]
    /\ UNCHANGED <<batch, server, parsevars,
                   mainvars, crashed, r, senderr, status, ret,
                   hargs, hcount, nfetch, fetchurl, body>>

\* a client error makes the loop fetch again
ClientErrorRetry(t) ==
    /\ ~crashed
    /\ pc[t] = "reply"
    /\ ~senderr[t]
    /\ ~(300 <= status[t] /\ status[t] < 400)
    /\ 400 <= status[t] /\ status[t] < 500
    /\ pc' = [pc EXCEPT ![t] = "send"]
    /\ UNCHANGED <<batch, server, parsevars,
                   req, mainvars, crashed, r, ret, hargs,
                   hcount, crawlvars, ev>>

\* case 400 <= res.StatusCode && res.StatusCode < 500:
\* return nil, fmt.Errorf(errHTTPClientError, res.Status, req.Domain, req.URL)
ClientError(t) ==
    /\ ~crashed
    /\ pc[t] = "reply"
    /\ ~senderr[t]
    /\ ~(300 <= status[t] /\ status[t] < 400)
    /\ 400 <= status[t] /\ status[t] < 500
    /\ \E u \in URLRead(t) :
          GetReturn(t, Nil, {Error("client", status[t], TaskReq(t), u)})
    /\ UNCHANGED <<batch, server, parsevars,
                   req, mainvars, crashed, r, hargs, hcount, ev>>

\* a failure of c.parseExpires fails the crawl
SuccessExpiresRequired(t) ==
    /\ ~crashed
    /\ pc[t] = "reply"
    /\ ~senderr[t]
    /\ status[t] = 200
    /\ \/ /\ ev' = [ev EXCEPT ![t] = Event("body", 200)]
          /\ GetReturn(t, Nil, {HelperError("expires")})
       \/ /\ ev' = [ev EXCEPT ![t] = Event("expiry", 200)]
          /\ GetReturn(t, {[Request |-> TaskReq(t), Records |-> "records",
                            Expires |-> "parsed"]}, Nil)
    /\ UNCHANGED <<batch, server, parsevars,
                   req, mainvars, crashed, r, hargs, hcount>>

\* every 2xx status is taken for a success
Success2xx(t) ==
    /\ ~crashed
    /\ pc[t] = "reply"
    /\ ~senderr[t]
    /\ 200 <= status[t] /\ status[t] < 300
    /\ \/ /\ ev' = [ev EXCEPT ![t] = Event("body", 200)]
          /\ GetReturn(t, {[Request |-> TaskReq(t), Records |-> "records",
                            Expires |-> "default"]}, Nil)
       \/ /\ ev' = [ev EXCEPT ![t] = Event("expiry", 200)]
          /\ GetReturn(t, {[Request |-> TaskReq(t), Records |-> "records",
                            Expires |-> "parsed"]}, Nil)
    /\ UNCHANGED <<batch, server, parsevars,
                   req, mainvars, crashed, r, hargs, hcount>>

\* case res.StatusCode == 200: c.readBody fails; ParseBody fails; the
\* Response keeps the default expiry because c.parseExpires fails; or the
\* Response takes the expiry c.parseExpires yields
Success(t) ==
    /\ ~crashed
    /\ pc[t] = "reply"
    /\ ~senderr[t]
    /\ ~(300 <= status[t] /\ status[t] < 400)
    /\ ~(400 <= status[t] /\ status[t] < 500)
    /\ status[t] = 200
    /\ \/ /\ ev' = [ev EXCEPT ![t] = Event("readfail", 200)]
          /\ GetReturn(t, Nil, {HelperError("read")})
       \/ /\ ev' = [ev EXCEPT ![t] = Event("toolong", 200)]
          /\ GetReturn(t, Nil, {HelperError("parse")})
       \/ /\ ev' = [ev EXCEPT ![t] = Event("body", 200)]
          /\ GetReturn(t, {[Request |-> TaskReq(t), Records |-> "records",
                            Expires |-> "default"]}, Nil)
       \/ /\ ev' = [ev EXCEPT ![t] = Event("expiry", 200)]
          /\ GetReturn(t, {[Request |-> TaskReq(t), Records |-> "records",
                            Expires |-> "parsed"]}, Nil)
    /\ UNCHANGED <<batch, server, parsevars,
                   req, mainvars, crashed, r, hargs, hcount>>

\* the default branch returns neither a Response nor an error
GeneralErrorSwallowed(t) ==
    /\ ~crashed
    /\ pc[t] = "reply"
    /\ ~senderr[t]
    /\ ~(300 <= status[t] /\ status[t] < 400)
    /\ ~(400 <= status[t] /\ status[t] < 500)
    /\ status[t] # 200
    /\ GetReturn(t, Nil, Nil)
    /\ UNCHANGED <<batch, server, parsevars,
                   req, mainvars, crashed, r, hargs, hcount, ev>>

\* default:
\* return nil, fmt.Errorf(errHTTPGeneralError, res.Status, req.Domain, req.URL)
GeneralError(t) ==
    /\ ~crashed
    /\ pc[t] = "reply"
    /\ ~senderr[t]
    /\ ~(300 <= status[t] /\ status[t] < 400)
    /\ ~(400 <= status[t] /\ status[t] < 500)
    /\ status[t] # 200
    /\ \E u \in URLRead(t) :
          GetReturn(t, Nil, {Error("general", status[t], TaskReq(t), u)})
    /\ UNCHANGED <<batch, server, parsevars,
                   req, mainvars, crashed, r, hargs, hcount, ev>>

(***************************************************************************)
(* The rest of the goroutine's body.                                       *)
(***************************************************************************)
\* the Handler is called only when the crawl succeeded
HandleCallSkipErr(t) ==
    /\ ~crashed
    /\ pc[t] = "handle"
    /\ IF ret[t].err = Nil
         THEN /\ hargs' = [hargs EXCEPT ![t] =
                     {[req |-> TaskReq(t), resp |-> ret[t].resp, err |-> Nil]}]
              /\ hcount' = [hcount EXCEPT ![TaskReq(t)] = @ + 1]
              /\ pc' = [pc EXCEPT ![t] = "inhandle"]
         ELSE /\ pc' = [pc EXCEPT ![t] = "release"]
              /\ UNCHANGED <<hargs, hcount>>
    /\ UNCHANGED <<batch, server, parsevars,
                   req, mainvars, crashed, r, ret, crawlvars, ev>>

\* the permit is given back before h.Handle is called
HandleCallReleases(t) ==
    /\ ~crashed
    /\ pc[t] = "handle"
    /\ guard > 0
    /\ guard' = guard - 1
    /\ hargs' = [hargs EXCEPT ![t] =
            {[req |-> TaskReq(t), resp |-> ret[t].resp, err |-> ret[t].err]}]
    /\ hcount' = [hcount EXCEPT ![TaskReq(t)] = @ + 1]
    /\ pc' = [pc EXCEPT ![t] = "inhandle"]
    /\ UNCHANGED <<batch, server, parsevars,
                   req, mainpc, i, wg, crashed, r, ret,
                   crawlvars, ev>>

\* h.Handle(r, res, err) is entered
HandleCall(t) ==
    /\ ~crashed
    /\ pc[t] = "handle"
    /\ hargs' = [hargs EXCEPT ![t] =
            {[req |-> TaskReq(t), resp |-> ret[t].resp, err |-> ret[t].err]}]
    /\ hcount' = [hcount EXCEPT ![TaskReq(t)] = @ + 1]
    /\ pc' = [pc EXCEPT ![t] = "inhandle"]
    /\ UNCHANGED <<batch, server, parsevars,
                   req, mainvars, crashed, r, ret, crawlvars, ev>>

\* h.Handle returns
HandleReturn(t) ==
    /\ ~crashed
    /\ pc[t] = "inhandle"
    /\ hargs' = [hargs EXCEPT ![t] = Nil]
    /\ ret' = [ret EXCEPT ![t] = NoRet]
    /\ ev' = [ev EXCEPT ![t] = NoEvent]
    /\ fetchurl' = [fetchurl EXCEPT ![t] = OrigURL]
    /\ pc' = [pc EXCEPT ![t] = "release"]
    /\ UNCHANGED <<batch, server, parsevars,
                   req, mainvars, crashed, r, hcount, senderr,
                   status, nfetch, nredir, body>>

\* h.Handle panics: no deferred call is registered yet, the goroutine
\* unwinds and the unrecovered panic ends the process
HandlePanic(t) ==
    /\ ~crashed
    /\ pc[t] = "inhandle"
    /\ pc' = [pc EXCEPT ![t] = "panicked"]
    /\ crashed' = TRUE
    /\ UNCHANGED <<batch, server, parsevars,
                   req, mainvars, r, ret, hargs, hcount,
                   crawlvars, ev>>

\* <-guard
Release(t) ==
    /\ ~crashed
    /\ pc[t] = "release"
    /\ guard > 0
    /\ guard' = guard - 1
    /\ pc' = [pc EXCEPT ![t] = "deferred"]
    /\ UNCHANGED <<batch, server, parsevars,
                   req, mainpc, i, wg, crashed, r, ret, hargs,
                   hcount, crawlvars, ev>>

\* defer wg.Done() is registered and runs as the function returns
WgDone(t) ==
    /\ ~crashed
    /\ pc[t] = "deferred"
    /\ wg' = wg - 1
    /\ pc' = [pc EXCEPT ![t] = "done"]
    /\ UNCHANGED <<batch, server, parsevars,
                   req, mainpc, i, guard, crashed, r, ret,
                   hargs, hcount, crawlvars, ev>>

(***************************************************************************)
(* Specifications.                                                         *)
(***************************************************************************)
Main == MainStart \/ MainAcquire \/ MainSpawn \/ MainLoopEnd \/ MainWait

Crawl(t) ==
    \/ SendRequest(t) \/ FetchFails(t) \/ FetchResponds(t)
    \/ TransportError(t) \/ RedirectFails(t) \/ Redirect(t)
    \/ ClientError(t) \/ Success(t) \/ GeneralError(t)

Finish(t) == HandleCall(t) \/ HandleReturn(t) \/ Release(t) \/ WgDone(t)

Next ==
    \/ Main
    \/ \E t \in Tasks : Crawl(t) \/ Finish(t) \/ HandlePanic(t)

Spec == Init /\ [][Next]_vars

\* A run in which the Handler never panics.  The Go scheduler runs every
\* runnable goroutine, and the transport ends every fetch with a response or
\* an error: each goroutine that can step eventually does.
NextNoPanic ==
    \/ Main
    \/ \E t \in Tasks : Crawl(t) \/ Finish(t)

FairSpec ==
    /\ Init
    /\ [][NextNoPanic]_vars
    /\ WF_vars(Main)
    /\ \A t \in Tasks : WF_vars(Crawl(t) \/ Finish(t))

\* the runs of GetMultiple on a batch with a repeated *Request
SpecAlias == InitAlias /\ [][Next]_vars

(***************************************************************************)
(* ParseBody: the split function, the bufio.Scanner that drives it, and    *)
(* the collection of the lines.                                            *)
(***************************************************************************)
\* bytes.IndexAny(data, "\r\n"), counted from 1; 0 when there is none
IndexAny(data) ==
    LET hits == {k \in 1..Len(data) : data[k] \in {CR, LF}}
    IN  IF hits = {} THEN 0 ELSE CHOOSE k \in hits : \A j \in hits : k <= j

\* the split function of ParseBody: advance and token, a nil token being Nil
split(data, atEOF) ==
    IF atEOF /\ Len(data) = 0
    THEN [advance |-> 0, token |-> Nil]
    ELSE LET k == IndexAny(data)
         IN  IF k > 0
             THEN IF data[k] = LF
                  THEN [advance |-> k, token |-> {SubSeq(data, 1, k - 1)}]
                  ELSE [advance |-> IF Len(data) > k /\ data[k + 1] = LF
                                    THEN k + 1 ELSE k,
                        token |-> {SubSeq(data, 1, k - 1)}]
             ELSE IF atEOF
                  THEN [advance |-> Len(data), token |-> {data}]
                  ELSE [advance |-> 0, token |-> Nil]

\* bufio.NewScanner(bytes.NewReader(b)): len is len(s.buf), off the read
\* position of the bytes.Reader, eof says that s.err is io.EOF, toolong that
\* it is bufio.ErrTooLong
NewScanner ==
    [len |-> 0, start |-> 0, end |-> 0, off |-> 0, eof |-> FALSE,
     toolong |-> FALSE]

\* s.buf[s.start:s.end]: the bytes read from b and not yet consumed
Buffered(b, s) == SubSeq(b, s.off - (s.end - s.start) + 1, s.off)

\* Scan: the data is moved to the front of the buffer when the buffer is
\* full to its end or more than half of it is consumed
Shift(s) ==
    IF s.start > 0 /\ (s.end = s.len \/ s.start > s.len \div 2)
    THEN [s EXCEPT !.end = @ - s.start, !.start = 0]
    ELSE s

\* Scan: a full buffer is replaced by one of twice the size, of
\* StartBufSize at first and of MaxTokenSize at most
Grow(s) ==
    IF s.end = s.len
    THEN LET newSize == IF s.len * 2 = 0 THEN StartBufSize ELSE s.len * 2
         IN  [s EXCEPT !.len = Min(newSize, MaxTokenSize),
                       !.end = @ - s.start, !.start = 0]
    ELSE s

\* s.r.Read(s.buf[s.end:len(s.buf)]) of the bytes.Reader: as many bytes as
\* fit, or io.EOF when none is left
Read(b, s) ==
    IF s.off >= Len(b)
    THEN [s EXCEPT !.eof = TRUE]
    ELSE LET n == Min(s.len - s.end, Len(b) - s.off)
         IN  [s EXCEPT !.end = @ + n, !.off = @ + n]

\* scanner.Scan(): the next token, or ok = FALSE at the end of the input
\* and when the buffer is full, cannot grow and holds no token
RECURSIVE Scan(_, _)
Scan(b, s) ==
    LET try == s.end > s.start \/ s.eof
        sp == split(Buffered(b, s), s.eof)
        s1 == IF try THEN [s EXCEPT !.start = @ + sp.advance] ELSE s
    IN  IF try /\ sp.token # Nil
        THEN [ok |-> TRUE, token |-> sp.token, s |-> s1]
        ELSE IF s1.eof
             THEN [ok |-> FALSE, token |-> Nil,
                   s |-> [s1 EXCEPT !.start = 0, !.end = 0]]
             ELSE LET s2 == Shift(s1)
                  IN  IF s2.end = s2.len /\ s2.len >= MaxTokenSize
                      THEN [ok |-> FALSE, token |-> Nil,
                            s |-> [s2 EXCEPT !.toolong = TRUE]]
                      ELSE Scan(b, Read(b, Grow(s2)))

\* for scanner.Scan() { lines = append(lines, scanner.Text()) }, then
\* scanner.Err(), which is nil after io.EOF
RECURSIVE ScanLines(_, _, _)
ScanLines(b, s, lines) ==
    LET sc == Scan(b, s)
    IN  IF sc.ok
        THEN ScanLines(b, sc.s, Append(lines, CHOOSE x \in sc.token : TRUE))
        ELSE [lines |-> lines,
              err |-> IF sc.s.toolong THEN {"ErrTooLong"} ELSE Nil]

\* strings.TrimSpace
RECURSIVE TrimSpace(_)
TrimSpace(l) ==
    IF l # <<>> /\ Head(l) = " " THEN TrimSpace(Tail(l))
    ELSE IF l # <<>> /\ l[Len(l)] = " "
         THEN TrimSpace(SubSeq(l, 1, Len(l) - 1))
         ELSE l

\* a line the record parser skips: blank after trimming, or a comment
Skipped(l) == TrimSpace(l) = <<>> \/ Head(TrimSpace(l)) = "#"

\* the name of a variable record in upper case
ToUpper(name) == [k \in DOMAIN name |-> IF name[k] = "a" THEN "A" ELSE name[k]]

\* the record of one line: Nil for a skipped line and for a line that fits
\* neither grammar.  No byte of Bytes is a comma, so no line has the three
\* fields of a data record; NAME=VALUE with a bare NAME is a variable record.
Record(l) ==
    LET t == TrimSpace(l)
        eqs == {k \in 1..Len(t) : t[k] = "="}
        eq == CHOOSE k \in eqs : \A j \in eqs : k <= j
        name == TrimSpace(SubSeq(t, 1, eq - 1))
    IN  IF Skipped(l) \/ eqs = {} THEN Nil
        ELSE IF name = <<>> \/ \E k \in 1..Len(name) : name[k] # "a" THEN Nil
        ELSE {[Name |-> ToUpper(name),
               Value |-> TrimSpace(SubSeq(t, eq + 1, Len(t)))]}

\* parseRecords(lines): the records of the lines in the order of the lines
RECURSIVE parseRecords(_)
parseRecords(lines) ==
    IF lines = <<>> THEN <<>>
    ELSE IF Record(Head(lines)) = Nil THEN parseRecords(Tail(lines))
    ELSE <<CHOOSE x \in Record(Head(lines)) : TRUE>>
            \o parseRecords(Tail(lines))

\* ParseBody(b): return nil, err when scanner.Err() is not nil, and
\* parseRecords(lines), nil otherwise
ParseBody(b) ==
    LET sl == ScanLines(b, NewScanner, <<>>)
    IN  [lines |-> sl.lines,
         records |-> IF sl.err # Nil THEN Nil ELSE {parseRecords(sl.lines)},
         err |-> sl.err]

\* ParseBody is called with the buffer and returns
ParseBodyCall ==
    /\ ppc \in {"ready", "edited"}
    /\ out' = ParseBody(input)
    /\ prev' = out
    /\ ppc' = IF ppc = "ready" THEN "parsed" ELSE "reparsed"
    /\ UNCHANGED <<batch, server, input, req, mainvars, crashed, pc, r, ret,
                   hargs, hcount, crawlvars, ev>>

\* the offsets of b at which a line begins
LineStarts(b) ==
    {k \in 0..Len(b) :
        \/ k = 0
        \/ k > 0 /\ b[k] = LF
        \/ k > 0 /\ b[k] = CR /\ (k = Len(b) \/ b[k + 1] # LF)}

\* blank and comment lines of up to MaxTokenSize bytes
SkippedLines ==
    {l \in UNION {[1..n -> {"#", " "}] : n \in 0..MaxTokenSize} : Skipped(l)}

\* the caller builds a second buffer: the first with one more blank or
\* comment line
InsertLine ==
    /\ ppc = "parsed"
    /\ \E k \in LineStarts(input), l \in SkippedLines :
          input' = SubSeq(input, 1, k) \o l \o <<LF>>
                      \o SubSeq(input, k + 1, Len(input))
    /\ ppc' = "edited"
    /\ UNCHANGED <<batch, server, out, prev, req, mainvars, crashed, pc, r,
                   ret, hargs, hcount, crawlvars, ev>>

\* ParseBody is called with a buffer of up to MaxLen bytes
InitParse ==
    /\ batch = <<>>
    /\ server = [codes |-> BatchCodes, targets |-> {OrigURL}]
    /\ Idle
    /\ input \in Inputs
    /\ ppc = "ready"
    /\ out = NoOut
    /\ prev = NoOut

NextParse == ParseBodyCall \/ InsertLine

SpecParse == InitParse /\ [][NextParse]_vars

(***************************************************************************)
(* Claims.                                                                 *)
(***************************************************************************)
\* goroutines inside Get: started and not yet returned
InFlight == {t \in Tasks : pc[t] \in GetStates}
\* goroutines whose Handle invocation has returned
HandlerReturned(t) == pc[t] \in {"release", "deferred", "done"}
\* number of positions of the batch that hold Request o
Mult(o) == Cardinality({k \in DOMAIN batch : batch[k] = o})

\* C1: during GetMultiple, for every batch size and interleaving, the number
\* of crawls in flight (Get started and not yet returned) never exceeds the
\* capacity of the admission gate.
C1_InFlightWithinCapacity == Cardinality(InFlight) <= GuardCap

\* C1 witness: the gate is full of running crawls while the loop still has a
\* Request to admit.
C1_Witness ==
    /\ Cardinality(InFlight) = GuardCap
    /\ mainpc = "loop"
    /\ i <= Len(batch)

\* C2: Handle is invoked exactly once per Request of the batch: never more
\* often than the Request occurs in the batch at any time, never for a
\* Request outside the batch, and exactly once each by the time GetMultiple
\* returns.
C2_HandleExactlyOnce ==
    /\ \A o \in Objs : hcount[o] <= Mult(o)
    /\ mainpc = "returned" => \A o \in Objs : hcount[o] = Mult(o)

\* C2 witness: GetMultiple has returned from a full batch and every Request
\* of it was handled once.
C2_Witness ==
    /\ mainpc = "returned"
    /\ Len(batch) = NumReq
    /\ \A k \in DOMAIN batch : hcount[batch[k]] = 1

\* C3: GetMultiple does not return before every Request has finished its
\* crawl and every Handle invocation has returned.
C3_ReturnAfterHandlers ==
    mainpc = "returned" => \A t \in DOMAIN batch : HandlerReturned(t)

\* C3 witness: GetMultiple has returned, from a batch larger than the gate,
\* after the last goroutine finished.
C3_Witness ==
    /\ mainpc = "returned"
    /\ Len(batch) > GuardCap
    /\ \A t \in DOMAIN batch : pc[t] = "done"

\* C4 (as claimed): every call of Get terminates; a crawl that has started
\* eventually returns, whatever the server answers.
C4_GetTerminates ==
    \A t \in Tasks : (pc[t] = "send") ~> (pc[t] \notin GetStates)

\* C5 (as claimed): once every goroutine of the batch has ended, by success,
\* by error or by a panic, the gate holds no permit and every completion has
\* been signalled to the wait group.
C5_PermitReleasedOnEveryPath ==
    (\A t \in DOMAIN batch : pc[t] \in {"done", "panicked"})
        => (guard = 0 /\ wg = 0)

\* C6 (as claimed): under fair scheduling every Request of the batch is
\* eventually admitted, crawled and handled, and GetMultiple returns.
C6_BatchProgress ==
    <>(mainpc = "returned" /\ \A t \in DOMAIN batch : pc[t] = "done")

\* what the crawl of position t must hand back, given the latest event the
\* environment gave that crawl
Agrees(resp, err, t) ==
    LET e == ev[t]
        o == batch[t]
    IN  CASE e.kind \in {"body", "expiry"} ->
                /\ err = Nil
                /\ \E x \in resp : resp = {x} /\ x.Request = o
          [] e.kind = "transport" ->
                resp = Nil /\ err = {HelperError("transport")}
          [] e.kind = "badlocation" ->
                resp = Nil /\ err = {HelperError("redirect")}
          [] e.kind = "readfail" ->
                resp = Nil /\ err = {HelperError("read")}
          [] e.kind = "toolong" ->
                resp = Nil /\ err = {HelperError("parse")}
          [] e.kind = "status" ->
                /\ resp = Nil
                /\ \E x \in err :
                      /\ err = {x}
                      /\ x.kind \in {"client", "general"}
                      /\ x.status = e.code
                      /\ x.domain = req[o].Domain
                      /\ x.url = req[o].URL
          [] OTHER -> FALSE

\* C7: each Handle invocation receives the Request of its own position
\* together with the Response and error the crawl of that Request produced,
\* whatever the crawls of the other Requests do.
C7_OutcomeCorrelated ==
    \A t \in Tasks :
        /\ pc[t] = "handle" => Agrees(ret[t].resp, ret[t].err, t)
        /\ pc[t] \in {"inhandle", "panicked"} =>
              \E c \in hargs[t] :
                  /\ hargs[t] = {c}
                  /\ c.req = batch[t]
                  /\ Agrees(c.resp, c.err, t)

\* C7 witness: two Handle invocations run at once, one with a Response and
\* one with an error.
C7_Witness ==
    \E t1, t2 \in Tasks :
        /\ pc[t1] = "inhandle" /\ pc[t2] = "inhandle"
        /\ \E c \in hargs[t1] : c.resp # Nil /\ c.err = Nil
        /\ \E c \in hargs[t2] : c.resp = Nil /\ c.err # Nil

\* C8: a 3xx response whose target can be extracted makes Get rewrite
\* Request.URL to the target and issue one follow-up fetch against the new
\* URL: after n redirects and a further response the crawl has issued n+1
\* fetches (counters saturate at MaxCount), each against the current URL.
C8_RedirectRefetch ==
    \A t \in Tasks :
        /\ pc[t] = "send" => nfetch[t] = nredir[t]
        /\ pc[t] \in {"await", "reply"} =>
              /\ nfetch[t] = Bump(nredir[t])
              /\ fetchurl[t] = req[batch[t]].URL
        /\ (pc[t] \in {"send", "await"} /\ ev[t].kind = "location") =>
              req[batch[t]].URL = ev[t].code

\* C8 witness: one redirect to another URL was followed and the second fetch,
\* issued against the new URL, has been answered with 200.
C8_Witness ==
    \E t \in Tasks :
        /\ pc[t] = "reply"
        /\ nredir[t] = 1 /\ nfetch[t] = 2
        /\ fetchurl[t] # OrigURL
        /\ ~senderr[t] /\ status[t] = 200

\* C9: on a 4xx response, reached directly or after redirects, Get returns a
\* client error carrying the status, the Request's Domain and its current
\* URL, with a nil Response, and issues no further fetch.
C9_ClientErrorTerminal ==
    \A t \in Tasks :
        (ev[t].kind = "status" /\ 400 <= ev[t].code /\ ev[t].code < 500) =>
            \/ pc[t] = "reply"
            \/ /\ pc[t] = "handle"
               /\ ret[t] = [resp |-> Nil,
                            err |-> {[kind |-> "client",
                                      status |-> ev[t].code,
                                      domain |-> req[batch[t]].Domain,
                                      url |-> req[batch[t]].URL]}]
            \/ pc[t] \in {"inhandle", "panicked"}

\* C9 witness: Get has returned the client error of a 404 received after a
\* redirect to another URL.
C9_Witness ==
    \E t \in Tasks :
        /\ pc[t] = "handle"
        /\ ev[t] = Event("status", 404)
        /\ req[batch[t]].URL # OrigURL
        /\ \E x \in ret[t].err : x.kind = "client" /\ x.url = req[batch[t]].URL

\* C10: when the transport fails on any fetch of a crawl, Get returns that
\* error at once with a nil Response; the fetch is not retried and no later
\* fetch is issued.
C10_TransportErrorTerminal ==
    \A t \in Tasks :
        ev[t].kind = "transport" =>
            \/ pc[t] = "reply"
            \/ /\ pc[t] = "handle"
               /\ ret[t] = [resp |-> Nil, err |-> {HelperError("transport")}]
            \/ pc[t] \in {"inhandle", "panicked"}

\* C10 witness: Get has returned the transport error of a fetch issued after
\* a redirect to another URL.
C10_Witness ==
    \E t \in Tasks :
        /\ pc[t] = "handle"
        /\ ev[t].kind = "transport"
        /\ req[batch[t]].URL # OrigURL
        /\ ret[t].resp = Nil

\* the crawl of position t has returned an error of the given kind that
\* names the status st
StatusError(t, kind, st) ==
    /\ pc'[t] = "handle"
    /\ ret'[t].resp = Nil
    /\ \E x \in ret'[t].err :
          ret'[t].err = {x} /\ x.kind = kind /\ x.status = st

\* C11: the status of a response decides the branch and the branches are
\* exclusive: exactly 200 takes the success branch, 300..399 the redirect
\* branch, 400..499 ends with the client error, and every other status (1xx,
\* 201..299, 5xx) ends with the general error without a further fetch.
C11_StatusClassification ==
    [][\A t \in Tasks :
          (pc[t] = "reply" /\ ~senderr[t] /\ pc'[t] # "reply") =>
             LET st == status[t]
             IN  CASE st = 200 ->
                        /\ pc'[t] = "handle"
                        /\ ev'[t].kind \in
                              {"body", "expiry", "readfail", "toolong"}
                   [] 300 <= st /\ st < 400 ->
                        \/ pc'[t] = "send" /\ ev'[t].kind = "location"
                        \/ pc'[t] = "handle" /\ ev'[t].kind = "badlocation"
                   [] 400 <= st /\ st < 500 -> StatusError(t, "client", st)
                   [] OTHER -> StatusError(t, "general", st)]_vars

\* C11 witness: a crawl has ended with the general error for status 201 and
\* after a single fetch.
C11_Witness ==
    \E t \in Tasks :
        /\ pc[t] = "handle"
        /\ ev[t] = Event("status", 201)
        /\ \E x \in ret[t].err : x.kind = "general" /\ x.status = 201
        /\ body[t] = NoBody
        /\ req[batch[t]].URL = OrigURL

\* the Response and error that position t holds: what Get returned to the
\* goroutine, then what the goroutine passed to Handle
Outcome(t) ==
    IF pc[t] = "handle" THEN {ret[t]}
    ELSE IF pc[t] \in {"inhandle", "panicked"}
         THEN {[resp |-> c.resp, err |-> c.err] : c \in hargs[t]}
         ELSE {}

\* C14: on a successful crawl Expires is the parsed expiry when
\* c.parseExpires succeeded and the default of now (UTC) + 7 days when it
\* failed; a failing c.parseExpires never makes the crawl fail, and no
\* Response carries an unset Expires.
C14_ExpiresParsedOrDefault ==
    \A t \in Tasks : \A o \in Outcome(t) :
        /\ ev[t].kind = "expiry" =>
              o.err = Nil /\ \E x \in o.resp : x.Expires = "parsed"
        /\ ev[t].kind = "body" =>
              o.err = Nil /\ \E x \in o.resp : x.Expires = "default"
        /\ \A x \in o.resp : x.Expires \in {"parsed", "default"}

\* C14 witness: one crawl has returned a Response with the default expiry
\* after c.parseExpires failed while another has returned one with the
\* parsed expiry.
C14_Witness ==
    \E t1, t2 \in Tasks :
        /\ pc[t1] = "handle" /\ ev[t1].kind = "body"
        /\ \E x \in ret[t1].resp : x.Expires = "default"
        /\ pc[t2] = "handle" /\ ev[t2].kind = "expiry"
        /\ \E x \in ret[t2].resp : x.Expires = "parsed"

\* C15: every return of Get and every Handle invocation carries exactly one
\* of a non-nil Response and a non-nil error, and a non-nil Response has
\* Request set to the crawled Request and Records set.
C15_ResponseXorError ==
    \A t \in Tasks : \A o \in Outcome(t) :
        /\ (o.resp = Nil) # (o.err = Nil)
        /\ Cardinality(o.resp) <= 1 /\ Cardinality(o.err) <= 1
        /\ \A x \in o.resp : x.Request = batch[t] /\ x.Records = "records"
        /\ pc[t] \in {"inhandle", "panicked"} =>
              \A c \in hargs[t] : c.req = batch[t]

\* C15 witness: a Handle invocation runs with a nil Response and the client
\* error while another runs with a Response and a nil error.
C15_Witness ==
    \E t1, t2 \in Tasks :
        /\ pc[t1] = "inhandle"
        /\ \E c \in hargs[t1] :
              c.resp = Nil /\ \E x \in c.err : x.kind = "client"
        /\ pc[t2] = "inhandle"
        /\ \E c \in hargs[t2] :
              c.err = Nil /\ \E x \in c.resp : x.Request = batch[t2]

\* C17: every response body a crawl obtained, the terminal one and each
\* redirect hop's, has exactly one Close deferred; all of them are closed as
\* Get returns and none earlier, so the terminal body is closed after
\* c.readBody, on every exit path.
C17_BodiesClosedAtReturn ==
    [][\A t \in Tasks :
          /\ body'[t].open = body'[t].defers
          /\ pc'[t] \notin GetStates => body'[t] = NoBody
          /\ body'[t].open < body[t].open =>
                pc[t] = "reply" /\ pc'[t] = "handle"]_vars

\* C17 witness: a crawl has returned a Response after a followed redirect,
\* that is after two response bodies, and none is open.
C17_Witness ==
    \E t \in Tasks :
        /\ pc[t] = "handle"
        /\ ev[t].kind = "expiry"
        /\ req[batch[t]].URL # OrigURL
        /\ fetchurl[t] # OrigURL
        /\ body[t] = NoBody

\* C19: Get writes the Request only in its URL field and only when it
\* follows a redirect; when Get returns, the URL is that of the last fetch
\* the crawl issued, the original one if no redirect was followed, and the
\* Domain is as it was; the Response and the Handler get that same Request
\* object; a failed extraction of the redirect target returns with the URL
\* as it was before that hop.
C19_RequestFrame ==
    [][/\ \A o \in Objs :
            /\ req'[o].Domain = req[o].Domain
            /\ req'[o].URL # req[o].URL =>
                  \E t \in DOMAIN batch :
                      /\ batch[t] = o
                      /\ pc[t] = "reply" /\ pc'[t] = "send"
                      /\ 300 <= status[t] /\ status[t] < 400
                      /\ ev'[t] = Event("location", req'[o].URL)
       /\ \A t \in Tasks :
            (pc[t] = "reply" /\ pc'[t] = "handle") =>
               /\ req'[batch[t]].URL = fetchurl[t]
               /\ nredir[t] = 0 => req'[batch[t]].URL = OrigURL
               /\ ev'[t].kind = "badlocation" =>
                     req'[batch[t]] = req[batch[t]]
               /\ \A x \in ret'[t].resp : x.Request = batch[t]
       /\ \A t \in Tasks :
            pc'[t] = "inhandle" =>
               \A c \in hargs'[t] :
                   /\ c.req = batch[t]
                   /\ \A x \in c.resp : x.Request = c.req
                   /\ req'[c.req].URL = fetchurl'[t]]_vars

\* C19 witness: a crawl followed a redirect to another URL and returned the
\* error of a failed target extraction on the next hop, the Request holding
\* the URL of that last fetch.
C19_Witness ==
    \E t \in Tasks :
        /\ pc[t] = "handle"
        /\ ev[t].kind = "badlocation"
        /\ req[batch[t]].URL # OrigURL
        /\ req[batch[t]].URL = fetchurl[t]
        /\ req[batch[t]].Domain = batch[t]

\* C18: whatever the batch, also when one Request object occurs at several
\* positions, no two goroutines are inside Get on the same Request at the
\* same time, so none reads or writes req.URL while another does, and no
\* Request has two fetches in flight.
C18_NoSharedRequest ==
    \A t1, t2 \in Tasks :
        (t1 # t2 /\ pc[t1] \in GetStates /\ pc[t2] \in GetStates) =>
            /\ TaskReq(t1) # TaskReq(t2)
            /\ ~(pc[t1] = "await" /\ pc[t2] = "await"
                    /\ TaskReq(t1) = TaskReq(t2))

\* goroutines that hold a permit: started and not yet past <-guard
Holding == {t \in Tasks : pc[t] \in GetStates \cup
                            {"handle", "inhandle", "panicked", "release"}}
\* goroutines inside h.Handle
Handling == {t \in Tasks : pc[t] = "inhandle"}

\* C20: a goroutine keeps its permit until its Handle invocation has
\* returned, so the permits taken are those of the goroutines not yet past
\* Handle plus the one the dispatching loop took for the goroutine it is
\* about to start; hence at most GuardCap Handle invocations run at once and
\* no goroutine is started without a free permit.
C20_PermitHeldThroughHandle ==
    /\ guard = Cardinality(Holding) + (IF mainpc = "go" THEN 1 ELSE 0)
    /\ guard <= GuardCap
    /\ Cardinality(Handling) <= GuardCap

\* C20 witness: as many Handle invocations as the gate has permits run at
\* the same time, more than one, while the dispatching loop waits at the
\* full gate with a Request left to start.
C20_Witness ==
    /\ Cardinality(Handling) = GuardCap
    /\ GuardCap > 1
    /\ guard = GuardCap
    /\ mainpc = "loop"
    /\ i <= Len(batch)

\* ParseBody has returned
Parsed == ppc \in {"parsed", "reparsed"}

\* C12: ParseBody never fails: for every byte buffer, whatever the length
\* of its lines, it returns a record set and a nil error.
C12_ParseBodyNeverFails ==
    Parsed => out.err = Nil /\ out.records # Nil

\* the lines of b when b is cut at every CR LF, lone LF and lone CR: the
\* last fragment is a line unless it is empty
RECURSIVE SplitLines(_)
SplitLines(b) ==
    LET k == IndexAny(b)
        n == IF b[k] = CR /\ Len(b) > k /\ b[k + 1] = LF THEN k + 1 ELSE k
    IN  IF b = <<>> THEN <<>>
        ELSE IF k = 0 THEN <<b>>
        ELSE <<SubSeq(b, 1, k - 1)>> \o SplitLines(SubSeq(b, n + 1, Len(b)))

\* C13: for every input that ParseBody accepts, and wherever the reads of
\* the scanner end, the lines it collects are the input cut at every CR LF,
\* LF and CR: CR LF is one boundary, an unterminated last fragment is a
\* line, a terminated last line adds no empty line, the empty input has no
\* line.
C13_LinesAsSplit ==
    (Parsed /\ out.err = Nil) => out.lines = SplitLines(input)

\* C16: after a blank or comment line was inserted into the buffer,
\* ParseBody returns the record sequence it returned before.
C16_SkippedLinesAddNothing ==
    ppc = "reparsed" => out.records = prev.records /\ out.err = prev.err

====
